---- MODULE Spec2Model ----
(***************************************************************************)
(* Model of the Modbus RTU sniffer (src/modbus_sniffer.py): the            *)
(* accumulation buffer of SerialSnooper, process_data, decode_modbus and   *)
(* calcCRC16.  Buffer indices are those of the source (0-based); B(d, i)   *)
(* reads modbus_data[i].                                                   *)
(***************************************************************************)
EXTENDS Integers, Sequences, FiniteSets, TLC

VARIABLES
  stream,        \* the bytes the bus delivers, in wire order (environment)
  pos,           \* number of bytes of stream already returned by read_raw
  data,          \* self.data
  trash_data,    \* self.trash_data
  trash_data_f,  \* self.trash_data_f, a sequence of text pieces
  log,           \* the records passed to log.info, in order
  lastEmpty,     \* the last process_data call had an empty chunk
  crc_data,      \* argument data of a direct calcCRC16 call
  crc_size,      \* argument size of that call, -1 before the call
  crc_result,    \* value returned by that call
  baud_rate,     \* baud_rate of the main routine
  timeout,       \* timeout of the main routine, a fraction of a second
  config_file,   \* config.json on disk (environment)
  CONFIGURATION, \* the global _CONFIGURATION of config.py
  loads,         \* number of times Configuration("config.json") was called
  config_result  \* the last call into config.py and its outcome

config_vars == <<config_file, CONFIGURATION, loads, config_result>>

vars == <<stream, pos, data, trash_data, trash_data_f, log, lastEmpty,
          crc_data, crc_size, crc_result, baud_rate, timeout,
                 config_vars>>

\* ------------------------------------------------------------------ bounds
MaxSegs == 2
MaxChunk == 5
MaxCrcLen == 3

\* half the width of the window of baud rates taken around 19200
BaudWindow == 40

\* number of frames that follow the front of a long stream
MaxFill == 34

\* number of times a configuration is constructed
MaxLoads == 3

\* ------------------------------------------------------------- byte helpers
RECURSIVE XorBits(_, _)
XorBits(a, b) ==
  IF a = 0 THEN b
  ELSE IF b = 0 THEN a
  ELSE (((a % 2) + (b % 2)) % 2) + (2 * XorBits(a \div 2, b \div 2))

\* a ^ b, the operands taken as values
Xor(a, b) == CHOOSE v \in {XorBits(x, y) : x \in {a}, y \in {b}} : TRUE

B(d, i) == d[i + 1]

Word(d, i) == (B(d, i) * 256) + B(d, i + 1)

Drop(d, n) == SubSeq(d, n + 1, Len(d))

Take(d, n) == SubSeq(d, 1, n)

\* ------------------------------------------------------------------ CRC-16
crc_hi_table ==
  <<
       0, 193, 129,  64,   1, 192, 128,  65,   1, 192, 128,  65,   0, 193, 129,  64,
       1, 192, 128,  65,   0, 193, 129,  64,   0, 193, 129,  64,   1, 192, 128,  65,
       1, 192, 128,  65,   0, 193, 129,  64,   0, 193, 129,  64,   1, 192, 128,  65,
       0, 193, 129,  64,   1, 192, 128,  65,   1, 192, 128,  65,   0, 193, 129,  64,
       1, 192, 128,  65,   0, 193, 129,  64,   0, 193, 129,  64,   1, 192, 128,  65,
       0, 193, 129,  64,   1, 192, 128,  65,   1, 192, 128,  65,   0, 193, 129,  64,
       0, 193, 129,  64,   1, 192, 128,  65,   1, 192, 128,  65,   0, 193, 129,  64,
       1, 192, 128,  65,   0, 193, 129,  64,   0, 193, 129,  64,   1, 192, 128,  65,
       1, 192, 128,  65,   0, 193, 129,  64,   0, 193, 129,  64,   1, 192, 128,  65,
       0, 193, 129,  64,   1, 192, 128,  65,   1, 192, 128,  65,   0, 193, 129,  64,
       0, 193, 129,  64,   1, 192, 128,  65,   1, 192, 128,  65,   0, 193, 129,  64,
       1, 192, 128,  65,   0, 193, 129,  64,   0, 193, 129,  64,   1, 192, 128,  65,
       0, 193, 129,  64,   1, 192, 128,  65,   1, 192, 128,  65,   0, 193, 129,  64,
       1, 192, 128,  65,   0, 193, 129,  64,   0, 193, 129,  64,   1, 192, 128,  65,
       1, 192, 128,  65,   0, 193, 129,  64,   0, 193, 129,  64,   1, 192, 128,  65,
       0, 193, 129,  64,   1, 192, 128,  65,   1, 192, 128,  65,   0, 193, 129,  64 >>

crc_lo_table ==
  <<
       0, 192, 193,   1, 195,   3,   2, 194, 198,   6,   7, 199,   5, 197, 196,   4,
     204,  12,  13, 205,  15, 207, 206,  14,  10, 202, 203,  11, 201,   9,   8, 200,
     216,  24,  25, 217,  27, 219, 218,  26,  30, 222, 223,  31, 221,  29,  28, 220,
      20, 212, 213,  21, 215,  23,  22, 214, 210,  18,  19, 211,  17, 209, 208,  16,
     240,  48,  49, 241,  51, 243, 242,  50,  54, 246, 247,  55, 245,  53,  52, 244,
      60, 252, 253,  61, 255,  63,  62, 254, 250,  58,  59, 251,  57, 249, 248,  56,
      40, 232, 233,  41, 235,  43,  42, 234, 238,  46,  47, 239,  45, 237, 236,  44,
     228,  36,  37, 229,  39, 231, 230,  38,  34, 226, 227,  35, 225,  33,  32, 224,
     160,  96,  97, 161,  99, 163, 162,  98, 102, 166, 167, 103, 165, 101, 100, 164,
     108, 172, 173, 109, 175, 111, 110, 174, 170, 106, 107, 171, 105, 169, 168, 104,
     120, 184, 185, 121, 187, 123, 122, 186, 190, 126, 127, 191, 125, 189, 188, 124,
     180, 116, 117, 181, 119, 183, 182, 118, 114, 178, 179, 115, 177, 113, 112, 176,
      80, 144, 145,  81, 147,  83,  82, 146, 150,  86,  87, 151,  85, 149, 148,  84,
     156,  92,  93, 157,  95, 159, 158,  94,  90, 154, 155,  91, 153,  89,  88, 152,
     136,  72,  73, 137,  75, 139, 138,  74,  78, 142, 143,  79, 141,  77,  76, 140,
      68, 132, 133,  69, 135,  71,  70, 134, 130,  66,  67, 131,  65, 129, 128,  64 >>

\* one turn of the while loop on the pair <<crc_hi, crc_lo>>
crcStep(d, index, st) ==
  LET crc == Xor(st[1], B(d, index))
  IN <<Xor(st[2], crc_hi_table[crc + 1]), crc_lo_table[crc + 1]>>

\* the turns for index = from .. to - 1 in order, the range taken in two halves
RECURSIVE crcTurns(_, _, _, _)
crcTurns(d, from, to, st) ==
  IF from >= to THEN st
  ELSE IF to = from + 1
       THEN CHOOSE after \in {crcStep(d, from, st)} : TRUE
       ELSE CHOOSE after \in
              {crcTurns(d, (from + to) \div 2, to, half) :
                 half \in {crcTurns(d, from, (from + to) \div 2, st)}} : TRUE

\* while index < size: ...; met_crc16 = (crc_hi * 0x0100) + crc_lo
crcLoop(d, size, index, crc_hi, crc_lo) ==
  LET st == crcTurns(d, index, size, <<crc_hi, crc_lo>>)
  IN (st[1] * 256) + st[2]

\* variant: both checksum bytes start at zero
calcCRC16ZeroInit(d, size) == crcLoop(d, size, 0, 0, 0)

calcCRC16(d, size) == crcLoop(d, size, 0, 255, 255)

\* ------------------------------------------------- text of the noise message
HexDigits ==
  <<"0", "1", "2", "3", "4", "5", "6", "7",
    "8", "9", "a", "b", "c", "d", "e", "f">>

\* "{:02x}".format(b)
Fmt02x(b) == <<HexDigits[(b \div 16) + 1], HexDigits[(b % 16) + 1]>>

\* "\033[33mWarning \033[0m: Ignoring data: [{:02x}".format(b)
TrashOpen(b) == <<"Warning : Ignoring data: [">> \o Fmt02x(b)

\* " {:02x}".format(b)
TrashMore(b) == <<" ">> \o Fmt02x(b)

\* ------------------------------------------------------------ logged records
NA == -1

Blank ==
  [kind |-> "None", span |-> <<>>, text |-> <<>>,
   unit_identifier |-> NA, function_code |-> NA,
   read_address |-> NA, read_quantity |-> NA, read_byte_count |-> NA,
   read_data |-> <<>>, write_address |-> NA, write_quantity |-> NA,
   write_data |-> <<>>, exception_code |-> NA]

\* the record of a frame whose bytes are modbus_data[0:buffer_index]
Frame(kind, d, buffer_index) ==
  [Blank EXCEPT !.kind = kind, !.span = Take(d, buffer_index),
                !.unit_identifier = B(d, 0), !.function_code = B(d, 1)]

NoiseRecord(text) == [Blank EXCEPT !.kind = "Noise", !.text = text]

\* ----------------------------------------------- outcome of one shape attempt
Short == [matched |-> FALSE, need_more_data |-> TRUE, buffer_index |-> 0, ev |-> Blank]

Miss == [matched |-> FALSE, need_more_data |-> FALSE, buffer_index |-> 0, ev |-> Blank]

Hit(n, ev) == [matched |-> TRUE, need_more_data |-> FALSE, buffer_index |-> n, ev |-> ev]

\* variant: the comparison of the two checksums always succeeds
CrcMatchAlways(d, buffer_index) == Word(d, buffer_index) = Word(d, buffer_index)

\* crc16 == met_crc16, with the checksum field at buffer_index
CrcMatch(d, buffer_index) == Word(d, buffer_index) = calcCRC16(d, buffer_index)

\* variant: the frame is logged before the ignored data
EmitFrameFirst(st, att) ==
  LET closed == st.trash_data_f \o <<"]">>
  IN [modbus_data  |-> Drop(st.modbus_data, att.buffer_index),
      trash_data   |-> FALSE,
      trash_data_f |-> IF st.trash_data THEN closed ELSE st.trash_data_f,
      log          |-> IF st.trash_data
                       THEN st.log \o <<att.ev, NoiseRecord(closed)>>
                       ELSE Append(st.log, att.ev)]

\* variant: the two checksum bytes of a logged frame stay in the buffer
EmitKeepChecksum(st, att) ==
  LET closed == st.trash_data_f \o <<"]">>
  IN [modbus_data  |-> Drop(st.modbus_data, att.buffer_index - 2),
      trash_data   |-> FALSE,
      trash_data_f |-> IF st.trash_data THEN closed ELSE st.trash_data_f,
      log          |-> IF st.trash_data
                       THEN st.log \o <<NoiseRecord(closed), att.ev>>
                       ELSE Append(st.log, att.ev)]

\* if self.trash_data: ... log.info(self.trash_data_f); log.info(frame);
\* modbus_data = modbus_data[buffer_index:]
Emit(st, att) ==
  LET closed == st.trash_data_f \o <<"]">>
  IN [modbus_data  |-> Drop(st.modbus_data, att.buffer_index),
      trash_data   |-> FALSE,
      trash_data_f |-> IF st.trash_data THEN closed ELSE st.trash_data_f,
      log          |-> IF st.trash_data
                       THEN st.log \o <<NoiseRecord(closed), att.ev>>
                       ELSE Append(st.log, att.ev)]

\* result of one pass of the while loop before its final if/elif
Pass(st, request, response, error, need_more_data) ==
  [st |-> st, request |-> request, response |-> response, error |-> error,
   need_more_data |-> need_more_data]

\* variant: the Response shape is tried before the Request shape
TwoShapesResponseFirst(st, req, resp) ==
  IF resp.matched
  THEN Pass(Emit(st, resp), FALSE, TRUE, FALSE, FALSE)
  ELSE IF req.matched
       THEN Pass(Emit(st, req), TRUE, FALSE, FALSE, resp.need_more_data)
       ELSE Pass(st, FALSE, FALSE, FALSE,
                 req.need_more_data \/ resp.need_more_data)

\* variant: a Request shape that is too short is forgotten once the Response
\* shape has been tested
TwoShapesForgetShort(st, req, resp) ==
  IF req.matched
  THEN Pass(Emit(st, req), TRUE, FALSE, FALSE, FALSE)
  ELSE IF resp.matched
       THEN Pass(Emit(st, resp), FALSE, TRUE, FALSE, FALSE)
       ELSE Pass(st, FALSE, FALSE, FALSE, resp.need_more_data)

\* variant: a Request shape that is too short ends the pass before the
\* Response shape is tried
TwoShapesRequestBlocks(st, req, resp) ==
  IF req.matched
  THEN Pass(Emit(st, req), TRUE, FALSE, FALSE, FALSE)
  ELSE IF req.need_more_data
       THEN Pass(st, FALSE, FALSE, FALSE, TRUE)
       ELSE IF resp.matched
            THEN Pass(Emit(st, resp), FALSE, TRUE, FALSE, FALSE)
            ELSE Pass(st, FALSE, FALSE, FALSE, resp.need_more_data)

\* a branch that tries the Request shape, then the Response shape
TwoShapes(st, req, resp) ==
  IF req.matched
  THEN Pass(Emit(st, req), TRUE, FALSE, FALSE, FALSE)
  ELSE IF resp.matched
       THEN Pass(Emit(st, resp), FALSE, TRUE, FALSE, req.need_more_data)
       ELSE Pass(st, FALSE, FALSE, FALSE,
                 req.need_more_data \/ resp.need_more_data)

\* -------------------------------------------- FC01 / FC02 read coils / inputs
FC01_02_Request(d) ==
  IF Len(d) >= 8
  THEN IF CrcMatch(d, 6)
       THEN Hit(8, [Frame("Request", d, 8) EXCEPT
                      !.read_address = Word(d, 2), !.read_quantity = Word(d, 4)])
       ELSE Miss
  ELSE Short

FC01_02_Response(d) ==
  IF Len(d) >= 7
  THEN LET read_byte_count == B(d, 2)
       IN IF Len(d) >= 5 + read_byte_count
          THEN IF CrcMatch(d, 3 + read_byte_count)
               THEN Hit(5 + read_byte_count,
                        [Frame("Response", d, 5 + read_byte_count) EXCEPT
                           !.read_byte_count = read_byte_count,
                           !.read_data = SubSeq(d, 4, 3 + read_byte_count)])
               ELSE Miss
          ELSE Short
  ELSE Short

FC01_02(st) ==
  TwoShapes(st, FC01_02_Request(st.modbus_data), FC01_02_Response(st.modbus_data))

\* ------------------------------- FC03 / FC04 read holding / input registers
\* variant: address and quantity change places
FC03_04_RequestSwapped(d) ==
  IF Len(d) >= 8
  THEN IF CrcMatch(d, 6)
       THEN Hit(8, [Frame("Request", d, 8) EXCEPT
                      !.read_address = Word(d, 4), !.read_quantity = Word(d, 2)])
       ELSE Miss
  ELSE Short

FC03_04_Request(d) ==
  IF Len(d) >= 8
  THEN IF CrcMatch(d, 6)
       THEN Hit(8, [Frame("Request", d, 8) EXCEPT
                      !.read_address = Word(d, 2), !.read_quantity = Word(d, 4)])
       ELSE Miss
  ELSE Short

FC03_04_Response(d) ==
  IF Len(d) >= 7
  THEN LET read_byte_count == B(d, 2)
       IN IF Len(d) >= 5 + read_byte_count
          THEN IF CrcMatch(d, 3 + read_byte_count)
               THEN Hit(5 + read_byte_count,
                        [Frame("Response", d, 5 + read_byte_count) EXCEPT
                           !.read_byte_count = read_byte_count,
                           !.read_data = SubSeq(d, 4, 3 + read_byte_count)])
               ELSE Miss
          ELSE Short
  ELSE Short

FC03_04(st) ==
  TwoShapes(st, FC03_04_Request(st.modbus_data), FC03_04_Response(st.modbus_data))

\* --------------------------------------------------- FC05 write single coil
FC05_Request(d) ==
  IF Len(d) >= 8
  THEN IF CrcMatch(d, 6)
       THEN Hit(8, [Frame("Request", d, 8) EXCEPT
                      !.write_address = Word(d, 2),
                      !.write_data = <<B(d, 4), B(d, 5)>>])
       ELSE Miss
  ELSE Short

FC05_Response(d) ==
  IF Len(d) >= 6
  THEN IF CrcMatch(d, 4)
       THEN Hit(6, [Frame("Response", d, 6) EXCEPT !.write_address = Word(d, 2)])
       ELSE Miss
  ELSE Short

FC05(st) ==
  TwoShapes(st, FC05_Request(st.modbus_data), FC05_Response(st.modbus_data))

\* ----------------------------------------------- FC06 write single register
FC06_Request(d) ==
  IF Len(d) >= 8
  THEN IF CrcMatch(d, 6)
       THEN Hit(8, [Frame("Request", d, 8) EXCEPT
                      !.write_address = Word(d, 2),
                      !.write_data = <<B(d, 4), B(d, 5)>>])
       ELSE Miss
  ELSE Short

FC06_Response(d) ==
  IF Len(d) >= 8
  THEN IF CrcMatch(d, 6)
       THEN Hit(8, [Frame("Response", d, 8) EXCEPT
                      !.write_address = Word(d, 2),
                      !.write_data = <<B(d, 4), B(d, 5)>>])
       ELSE Miss
  ELSE Short

FC06(st) ==
  TwoShapes(st, FC06_Request(st.modbus_data), FC06_Response(st.modbus_data))

\* -------------------------------------------------- FC15 write multiple coils
\* variant: the write data is collected from the byte count on
FC15_RequestDataFromCount(d) ==
  IF Len(d) >= 10
  THEN LET write_byte_count == B(d, 6)
       IN IF Len(d) >= 9 + write_byte_count
          THEN IF CrcMatch(d, 7 + write_byte_count)
               THEN Hit(9 + write_byte_count,
                        [Frame("Request", d, 9 + write_byte_count) EXCEPT
                           !.write_address = Word(d, 2),
                           !.write_quantity = Word(d, 4),
                           !.write_data = SubSeq(d, 7, 6 + write_byte_count)])
               ELSE Miss
          ELSE Short
  ELSE Short

FC15_Request(d) ==
  IF Len(d) >= 10
  THEN LET write_byte_count == B(d, 6)
       IN IF Len(d) >= 9 + write_byte_count
          THEN IF CrcMatch(d, 7 + write_byte_count)
               THEN Hit(9 + write_byte_count,
                        [Frame("Request", d, 9 + write_byte_count) EXCEPT
                           !.write_address = Word(d, 2),
                           !.write_quantity = Word(d, 4),
                           !.write_data = SubSeq(d, 8, 7 + write_byte_count)])
               ELSE Miss
          ELSE Short
  ELSE Short

FC15_Response(d) ==
  IF Len(d) >= 8
  THEN IF CrcMatch(d, 6)
       THEN Hit(8, [Frame("Response", d, 8) EXCEPT
                      !.write_address = Word(d, 2), !.write_quantity = Word(d, 4)])
       ELSE Miss
  ELSE Short

FC15(st) ==
  TwoShapes(st, FC15_Request(st.modbus_data), FC15_Response(st.modbus_data))

\* ---------------------------------------------- FC16 write multiple registers
FC16_Request(d) ==
  IF Len(d) >= 11
  THEN LET write_byte_count == B(d, 6)
       IN IF Len(d) >= 9 + write_byte_count
          THEN IF CrcMatch(d, 7 + write_byte_count)
               THEN Hit(9 + write_byte_count,
                        [Frame("Request", d, 9 + write_byte_count) EXCEPT
                           !.write_address = Word(d, 2),
                           !.write_quantity = Word(d, 4),
                           !.write_data = SubSeq(d, 8, 7 + write_byte_count)])
               ELSE Miss
          ELSE Short
  ELSE Short

FC16_Response(d) ==
  IF Len(d) >= 8
  THEN IF CrcMatch(d, 6)
       THEN Hit(8, [Frame("Response", d, 8) EXCEPT
                      !.write_address = Word(d, 2), !.write_quantity = Word(d, 4)])
       ELSE Miss
  ELSE Short

\* the error shape tried inside the FC16 branch: function_code is logged as is
FC16_Error(d) ==
  IF Len(d) >= 5
  THEN IF CrcMatch(d, 3)
       THEN Hit(5, [Frame("Exception", d, 5) EXCEPT !.exception_code = B(d, 2)])
       ELSE Miss
  ELSE Short

FC16(st) ==
  LET d == st.modbus_data
      two == TwoShapes(st, FC16_Request(d), FC16_Response(d))
      err == FC16_Error(d)
  IN IF (~two.request) /\ (~two.response)
     THEN IF err.matched
          THEN Pass(Emit(st, err), FALSE, FALSE, TRUE, two.need_more_data)
          ELSE Pass(st, FALSE, FALSE, FALSE,
                    two.need_more_data \/ err.need_more_data)
     ELSE two

\* ----------------------------------------- FC23 read/write multiple registers
\* log.info receives (read_address, write_address, read_quantity,
\* write_quantity) for the places "Read address", "Read Quantity",
\* "Write address", "Write quantity" of the format string
FC23_Request(d) ==
  IF Len(d) >= 15
  THEN LET write_byte_count == B(d, 10)
       IN IF Len(d) >= 13 + write_byte_count
          THEN IF CrcMatch(d, 11 + write_byte_count)
               THEN Hit(13 + write_byte_count,
                        [Frame("Request", d, 13 + write_byte_count) EXCEPT
                           !.read_address = Word(d, 2),
                           !.read_quantity = Word(d, 6),
                           !.write_address = Word(d, 4),
                           !.write_quantity = Word(d, 8),
                           !.write_data = SubSeq(d, 12, 11 + write_byte_count)])
               ELSE Miss
          ELSE Short
  ELSE Short

FC23_Response(d) ==
  IF Len(d) >= 7
  THEN LET read_byte_count == B(d, 2)
       IN IF Len(d) >= 5 + read_byte_count
          THEN IF CrcMatch(d, 3 + read_byte_count)
               THEN Hit(5 + read_byte_count,
                        [Frame("Response", d, 5 + read_byte_count) EXCEPT
                           !.read_byte_count = read_byte_count,
                           !.read_data = SubSeq(d, 4, 3 + read_byte_count)])
               ELSE Miss
          ELSE Short
  ELSE Short

FC23(st) ==
  TwoShapes(st, FC23_Request(st.modbus_data), FC23_Response(st.modbus_data))

\* ------------------------------------------------- FC80+ exception responses
\* variant: the high bit of the function code is cleared before logging
FC80_ErrorMasked(d) ==
  IF Len(d) >= 5
  THEN IF CrcMatch(d, 3)
       THEN Hit(5, [Frame("Exception", d, 5) EXCEPT
                      !.function_code = B(d, 1) % 128,
                      !.exception_code = B(d, 2)])
       ELSE Miss
  ELSE Short

\* variant: fewer than 5 bytes count as a failed checksum
FC80_ErrorNoWait(d) ==
  IF Len(d) >= 5
  THEN IF CrcMatch(d, 3)
       THEN Hit(5, [Frame("Exception", d, 5) EXCEPT !.exception_code = B(d, 2)])
       ELSE Miss
  ELSE Miss

FC80_Error(d) ==
  IF Len(d) >= 5
  THEN IF CrcMatch(d, 3)
       THEN Hit(5, [Frame("Exception", d, 5) EXCEPT !.exception_code = B(d, 2)])
       ELSE Miss
  ELSE Short

FC80(st) ==
  LET err == FC80_Error(st.modbus_data)
  IN IF err.matched
     THEN Pass(Emit(st, err), FALSE, FALSE, TRUE, FALSE)
     ELSE Pass(st, FALSE, FALSE, FALSE, err.need_more_data)

\* ------------------------------------------------------------ decode_modbus
\* variant: a function code without a branch waits for more bytes
DispatchUnknownWaits(st) ==
  LET d == st.modbus_data
  IN IF Len(d) > 2
     THEN LET function_code == B(d, 1)
          IN IF function_code \in {1, 2} THEN FC01_02(st)
             ELSE IF function_code \in {3, 4} THEN FC03_04(st)
             ELSE IF function_code = 5 THEN FC05(st)
             ELSE IF function_code = 6 THEN FC06(st)
             ELSE IF function_code = 15 THEN FC15(st)
             ELSE IF function_code = 16 THEN FC16(st)
             ELSE IF function_code = 23 THEN FC23(st)
             ELSE IF function_code >= 128 THEN FC80(st)
             ELSE Pass(st, FALSE, FALSE, FALSE, TRUE)
     ELSE Pass(st, FALSE, FALSE, FALSE, TRUE)

\* one pass of the while loop up to the final if/elif (frame_start_index = 0)
Dispatch(st) ==
  LET d == st.modbus_data
  IN IF Len(d) > 2
     THEN LET function_code == B(d, 1)
          IN IF function_code \in {1, 2} THEN FC01_02(st)
             ELSE IF function_code \in {3, 4} THEN FC03_04(st)
             ELSE IF function_code = 5 THEN FC05(st)
             ELSE IF function_code = 6 THEN FC06(st)
             ELSE IF function_code = 15 THEN FC15(st)
             ELSE IF function_code = 16 THEN FC16(st)
             ELSE IF function_code = 23 THEN FC23(st)
             ELSE IF function_code >= 128 THEN FC80(st)
             ELSE Pass(st, FALSE, FALSE, FALSE, FALSE)
     ELSE Pass(st, FALSE, FALSE, FALSE, TRUE)

\* variant: two bytes leave the buffer, one is recorded
TrashStepSkip2(st) ==
  [st EXCEPT
     !.trash_data = TRUE,
     !.trash_data_f = IF st.trash_data
                      THEN st.trash_data_f \o TrashMore(B(st.modbus_data, 0))
                      ELSE TrashOpen(B(st.modbus_data, 0)),
     !.modbus_data = Drop(st.modbus_data, 2)]

\* variant: every ignored byte starts the message anew
TrashStepReopen(st) ==
  [st EXCEPT
     !.trash_data = TRUE,
     !.trash_data_f = TrashOpen(B(st.modbus_data, 0)),
     !.modbus_data = Drop(st.modbus_data, 1)]

\* the byte at frame_start_index joins the ignored data
TrashStep(st) ==
  [st EXCEPT
     !.trash_data = TRUE,
     !.trash_data_f = IF st.trash_data
                      THEN st.trash_data_f \o TrashMore(B(st.modbus_data, 0))
                      ELSE TrashOpen(B(st.modbus_data, 0)),
     !.modbus_data = Drop(st.modbus_data, 1)]

RECURSIVE decode_modbus(_)
decode_modbus(st) ==
  CHOOSE returned \in
    {IF p.need_more_data
     THEN p.st
     ELSE IF (~p.request) /\ (~p.response) /\ (~p.error)
          THEN decode_modbus(TrashStep(p.st))
          ELSE decode_modbus(p.st) : p \in {Dispatch(st)}} : TRUE

\* ------------------------------------------------------------- process_data
Self == [modbus_data |-> data, trash_data |-> trash_data,
         trash_data_f |-> trash_data_f, log |-> log]

\* variant: the decoder also runs after bytes were appended
process_dataEager(self, data_to_process) ==
  LET joined == [self EXCEPT !.modbus_data = self.modbus_data \o data_to_process]
  IN IF Len(joined.modbus_data) > 2 THEN decode_modbus(joined) ELSE joined

\* variant: a call with bytes starts from a closed run of ignored data
process_dataFreshRun(self, data_to_process) ==
  IF Len(data_to_process) <= 0
  THEN IF Len(self.modbus_data) > 2 THEN decode_modbus(self) ELSE self
  ELSE [self EXCEPT !.modbus_data = self.modbus_data \o data_to_process,
                    !.trash_data = FALSE]

\* variant: an empty chunk met with fewer than 3 bytes discards them
process_dataDropShort(self, data_to_process) ==
  IF Len(data_to_process) <= 0
  THEN IF Len(self.modbus_data) > 2 THEN decode_modbus(self)
       ELSE [self EXCEPT !.modbus_data = <<>>]
  ELSE [self EXCEPT !.modbus_data = self.modbus_data \o data_to_process]

process_data(self, data_to_process) ==
  IF Len(data_to_process) <= 0
  THEN IF Len(self.modbus_data) > 2 THEN decode_modbus(self) ELSE self
  ELSE [self EXCEPT !.modbus_data = self.modbus_data \o data_to_process]

\* ------------------------------------------------------ traffic on the bus
Example    == <<1, 3, 0, 0, 0, 10, 197, 205>>         \* FC03 request, unit 1
RespFC03   == <<17, 3, 2, 18, 52, 116, 240>>          \* FC03 response, 2 bytes
RespFC05   == <<17, 5, 0, 1, 212, 217>>               \* FC05 response
FrameFC06  == <<17, 6, 0, 1, 0, 2, 91, 91>>           \* FC06 request/response
RespFC15   == <<17, 15, 39, 165, 0, 10, 205, 203>>    \* FC15 response
RespFC16   == <<17, 16, 0, 1, 0, 1, 82, 153>>         \* FC16 response
ReqFC16    == <<17, 16, 0, 1, 0, 1, 2, 0, 10, 234, 70>> \* FC16 request
Exc83      == <<17, 131, 2, 193, 52>>                 \* exception to FC03
Exc83Unit1 == <<1, 131, 2, 192, 241>>                 \* same, unit 1
ExcC1      == <<17, 193, 4, 113, 150>>                \* exception, code 0x41
Short16    == <<17, 16, 2, 173, 196>>                 \* 5 bytes, code 0x10
Garbage    == <<255, 255>>
Zeros      == <<0, 0, 0>>

Segments ==
  {Example, RespFC03, RespFC05, FrameFC06, RespFC15, RespFC16, ReqFC16,
   Exc83, Exc83Unit1, ExcC1, Short16, Garbage, Zeros}

RECURSIVE StreamsOf(_)
StreamsOf(n) ==
  IF n = 0 THEN {<<>>}
  ELSE LET shorter == StreamsOf(n - 1)
       IN shorter \cup {s \o g : s \in shorter, g \in Segments}

Streams == StreamsOf(MaxSegs)

CrcBytes == {0, 1, 3, 10, 128, 255}

RECURSIVE SeqsUpTo(_)
SeqsUpTo(n) ==
  IF n = 0 THEN {<<>>}
  ELSE LET shorter == SeqsUpTo(n - 1)
       IN shorter \cup {Append(s, b) : s \in shorter, b \in CrcBytes}

CrcInputs == SeqsUpTo(MaxCrcLen) \cup {Take(Example, 6)}

\* -------------------------------------------------------- calculate_timeout
\* a number of seconds as the fraction num / den; den = 0 stands for None
None == [num |-> 0, den |-> 0]

\* variant: the frame delay of 3.5 character times, 38.5 / baud rate
calculate_timeoutThreeAndHalf(configured_baud_rate) ==
  IF configured_baud_rate < 19200
  THEN [num |-> 385, den |-> 10 * configured_baud_rate]
  ELSE [num |-> 1750, den |-> 1000000]

\* 33 / configured_baud_rate below 19200, else the literal 0.001750
calculate_timeout(configured_baud_rate) ==
  IF configured_baud_rate < 19200
  THEN [num |-> 33, den |-> configured_baud_rate]
  ELSE [num |-> 1750, den |-> 1000000]

\* baud_rate = 57600 of the main routine
DefaultBaud == 57600

\* ------------------------------------------------------------- config.json
\* the text of a file as a sequence of tokens
Punct(c) == [kind |-> "punct", text |-> c]

Str(s) == [kind |-> "string", text |-> s]

\* null and numbers
Lit(w) == [kind |-> "literal", text |-> w]

\* text that is no JSON token
Bare(w) == [kind |-> "bare", text |-> w]

\* a byte that is no UTF-8
RawByte(b) == [kind |-> "byte", text |-> b]

\* the values json.load returns: dict, list, str, int, None
Py(type, text, items) == [type |-> type, text |-> text, items |-> items]

PyNone == Py("NoneType", "", <<>>)

PyStr(s) == Py("str", s, <<>>)

\* outcome of a call: the exception it raised, or "" and the value it returned
Raise(exception) == [raised |-> exception, value |-> PyNone]

Return(value) == [raised |-> "", value |-> value]

IsScalar(tok) == tok.kind \in {"string", "literal"}

Scalar(tok) ==
  IF tok.kind = "string" THEN PyStr(tok.text)
  ELSE IF tok.text = "null" THEN PyNone
  ELSE Py("int", tok.text, <<>>)

\* dict[key] = value: a later member replaces an earlier one of the same key
RECURSIVE SetItem(_, _, _)
SetItem(items, key, value) ==
  IF Len(items) = 0 THEN <<[key |-> key, value |-> value]>>
  ELSE IF Head(items).key = key
       THEN <<[key |-> key, value |-> value]>> \o Tail(items)
       ELSE <<Head(items)>> \o SetItem(Tail(items), key, value)

\* dict.get(key, None)
RECURSIVE GetItem(_, _)
GetItem(items, key) ==
  IF Len(items) = 0 THEN PyNone
  ELSE IF Head(items).key = key THEN Head(items).value
  ELSE GetItem(Tail(items), key)

\* toks is  string : scalar  { , string : scalar }
RECURSIVE IsMembers(_)
IsMembers(toks) ==
  /\ Len(toks) >= 3
  /\ toks[1].kind = "string"
  /\ toks[2] = Punct(":")
  /\ IsScalar(toks[3])
  /\ \/ Len(toks) = 3
     \/ Len(toks) > 4 /\ toks[4] = Punct(",") /\ IsMembers(SubSeq(toks, 5, Len(toks)))

RECURSIVE Members(_, _)
Members(toks, items) ==
  LET more == SetItem(items, toks[1].text, Scalar(toks[3]))
  IN IF Len(toks) = 3 THEN more
     ELSE Members(SubSeq(toks, 5, Len(toks)), more)

\* json.load(file): decode the bytes, then parse one JSON value
json_load(toks) ==
  IF \E i \in 1..Len(toks) : toks[i].kind = "byte"
  THEN Raise("UnicodeDecodeError")
  ELSE IF Len(toks) = 1 /\ IsScalar(toks[1])
  THEN Return(Scalar(toks[1]))
  ELSE IF toks = <<Punct("["), Punct("]")>>
  THEN Return(Py("list", "", <<>>))
  ELSE IF Len(toks) >= 2 /\ toks[1] = Punct("{") /\ toks[Len(toks)] = Punct("}")
  THEN LET inner == SubSeq(toks, 2, Len(toks) - 1)
       IN IF Len(inner) = 0 THEN Return(Py("dict", "", <<>>))
          ELSE IF IsMembers(inner)
               THEN Return(Py("dict", "", Members(inner, <<>>)))
               ELSE Raise("JSONDecodeError")
  ELSE Raise("JSONDecodeError")

\* _CONFIGURATION = None
NoConfiguration == [id |-> 0, _file_path |-> "", _data |-> PyNone]

\* Configuration.__init__: open raises FileNotFoundError for a missing file;
\* of what json.load raises only FileNotFoundError is caught
Configuration(file, id) ==
  IF ~file.exists
  THEN [raised |-> "ConfigurationMissingFileException", object |-> NoConfiguration]
  ELSE LET loaded == json_load(file.content)
       IN IF loaded.raised = "FileNotFoundError"
          THEN [raised |-> "ConfigurationInvalidJsonFile", object |-> NoConfiguration]
          ELSE IF loaded.raised # ""
          THEN [raised |-> loaded.raised, object |-> NoConfiguration]
          ELSE [raised |-> "",
                object |-> [id |-> id, _file_path |-> "config.json",
                            _data |-> loaded.value]]

\* self._data.get exists on a dict only
_get_key(self, key, default) ==
  IF self._data.type # "dict" THEN Raise("AttributeError")
  ELSE LET parameter == GetItem(self._data.items, key)
       IN IF parameter # PyNone THEN Return(parameter)
          ELSE IF default = PyNone
               THEN Raise("ConfigurationMissingEntryException")
               ELSE Return(default)

get_slave_id_format(self) == _get_key(self, "slaveIdFormat", PyNone)

get_register_address_format(self) ==
  _get_key(self, "registerAddressFormat", PyStr("{}"))

\* what config.json can hold
Member(key, tok) == <<Str(key), Punct(":"), tok>>

Object(members) == <<Punct("{")>> \o members \o <<Punct("}")>>

JsonObjects ==
  {Object(<<>>),
   Object(Member("slaveIdFormat", Str("{}"))),
   Object(Member("slaveIdFormat", Lit("null"))),
   Object(Member("slaveIdFormat", Str(""))),
   Object(Member("registerAddressFormat", Str("{:04x}"))),
   Object(Member("registerAddressFormat", Lit("null"))),
   Object(Member("slaveIdFormat", Str("{:02x}")) \o <<Punct(",")>>
            \o Member("registerAddressFormat", Str("{:04x}"))),
   Object(Member("slaveIdFormat", Str("{}")) \o <<Punct(",")>>
            \o Member("slaveIdFormat", Lit("null")))}

\* valid JSON that is no object
JsonOthers == {<<Punct("["), Punct("]")>>, <<Lit("null")>>, <<Lit("5")>>, <<Str("s")>>}

\* content that is no JSON: nothing, an object left open, words, a stray byte
NotJson ==
  {<<>>, <<Punct("{")>>, <<Bare("not"), Bare("json")>>,
   <<Punct("{"), Str("slaveIdFormat"), Punct("}")>>, <<RawByte("ff")>>}

Contents == JsonObjects \cup JsonOthers \cup NotJson

MissingFile == [exists |-> FALSE, content |-> <<>>]

FileOf(content) == [exists |-> TRUE, content |-> content]

ConfigFiles == {MissingFile} \cup {FileOf(c) : c \in Contents}

NoCall == [op |-> "", raised |-> "", value |-> PyNone, object |-> NoConfiguration]

\* the sniffer runs beside a config.json that names the slave id format
ConfigAtRest ==
  /\ config_file = FileOf(Object(Member("slaveIdFormat", Str("{}"))))
  /\ CONFIGURATION = NoConfiguration
  /\ loads = 0
  /\ config_result = NoCall

\* ------------------------------------------------------------ state machine
Init ==
  /\ stream \in Streams
  /\ pos = 0
  /\ data = <<>>
  /\ trash_data = FALSE
  /\ trash_data_f = <<>>
  /\ log = <<>>
  /\ lastEmpty = FALSE
  /\ crc_data = <<>>
  /\ crc_size = -1
  /\ crc_result = 0
  /\ baud_rate = DefaultBaud
  /\ timeout = calculate_timeout(DefaultBaud)
  /\ ConfigAtRest

Call(data_to_process) ==
  LET after == process_data(Self, data_to_process)
  IN /\ data' = after.modbus_data
     /\ trash_data' = after.trash_data
     /\ trash_data_f' = after.trash_data_f
     /\ log' = after.log
     /\ lastEmpty' = (Len(data_to_process) = 0)

\* read_raw returned bytes: the driver hands them to process_data
Ingest(n) ==
  /\ pos + n <= Len(stream)
  /\ pos' = pos + n
  /\ Call(SubSeq(stream, pos + 1, pos + n))
  /\ UNCHANGED <<stream, crc_data, crc_size, crc_result, baud_rate, timeout,
                 config_vars>>

\* read_raw timed out: the driver calls process_data with no bytes
Silence ==
  /\ Call(<<>>)
  /\ UNCHANGED <<stream, pos, crc_data, crc_size, crc_result, baud_rate,
                 timeout, config_vars>>

Next ==
  \/ \E n \in 1..MaxChunk : Ingest(n)
  \/ Silence

Spec == Init /\ [][Next]_vars

\* ------------------------------------------- calcCRC16 as a function on its own
InitCRC ==
  /\ stream = <<>>
  /\ pos = 0
  /\ data = <<>>
  /\ trash_data = FALSE
  /\ trash_data_f = <<>>
  /\ log = <<>>
  /\ lastEmpty = FALSE
  /\ crc_data \in CrcInputs
  /\ crc_size = -1
  /\ crc_result = 0
  /\ baud_rate = DefaultBaud
  /\ timeout = calculate_timeout(DefaultBaud)
  /\ ConfigAtRest

CrcCall(size) ==
  /\ crc_size = -1
  /\ crc_size' = size
  /\ crc_result' = calcCRC16(crc_data, size)
  /\ UNCHANGED <<stream, pos, data, trash_data, trash_data_f, log, lastEmpty,
                 crc_data, baud_rate, timeout,
                 config_vars>>

NextCRC == \E size \in 0..Len(crc_data) : CrcCall(size)

SpecCRC == InitCRC /\ [][NextCRC]_vars

\* --------------------------------- calculate_timeout as called by the main routine
StandardRates ==
  {50, 75, 110, 134, 150, 200, 300, 600, 1200, 1800, 2400, 4800, 9600, 14400,
   19200, 28800, 38400, 57600, 115200, 230400, 460800, 921600}

\* -b: the standard rates and every rate within BaudWindow of 19200
BaudRates ==
  StandardRates \cup ((19200 - BaudWindow)..(19200 + BaudWindow)) \cup 1..BaudWindow

InitTimeout ==
  /\ stream = <<>>
  /\ pos = 0
  /\ data = <<>>
  /\ trash_data = FALSE
  /\ trash_data_f = <<>>
  /\ log = <<>>
  /\ lastEmpty = FALSE
  /\ crc_data = <<>>
  /\ crc_size = -1
  /\ crc_result = 0
  /\ baud_rate \in BaudRates
  /\ timeout = None
  /\ ConfigAtRest

\* if timeout is None: timeout = calculate_timeout(baud_rate)
TimeoutCall ==
  /\ timeout = None
  /\ timeout' = calculate_timeout(baud_rate)
  /\ UNCHANGED <<stream, pos, data, trash_data, trash_data_f, log, lastEmpty,
                 crc_data, crc_size, crc_result, baud_rate, config_vars>>

NextTimeout == TimeoutCall

SpecTimeout == InitTimeout /\ [][NextTimeout]_vars

\* ------------------------------------------------- the calls into config.py
InitConfig ==
  /\ stream = <<>>
  /\ pos = 0
  /\ data = <<>>
  /\ trash_data = FALSE
  /\ trash_data_f = <<>>
  /\ log = <<>>
  /\ lastEmpty = FALSE
  /\ crc_data = <<>>
  /\ crc_size = -1
  /\ crc_result = 0
  /\ baud_rate = DefaultBaud
  /\ timeout = calculate_timeout(DefaultBaud)
  /\ config_file \in ConfigFiles
  /\ CONFIGURATION = NoConfiguration
  /\ loads = 0
  /\ config_result = NoCall

sniffer_vars ==
  <<stream, pos, data, trash_data, trash_data_f, log, lastEmpty,
    crc_data, crc_size, crc_result, baud_rate, timeout>>

\* variant: every call constructs a Configuration anew
GetConfigurationReload ==
  /\ UNCHANGED <<sniffer_vars, config_file>>
  /\ loads < MaxLoads
  /\ loads' = loads + 1
  /\ LET made == Configuration(config_file, loads + 1)
     IN /\ CONFIGURATION' = made.object
        /\ config_result' =
             [op |-> "get_configuration", raised |-> made.raised,
              value |-> PyNone, object |-> made.object]

\* get_configuration(): construct once, then return the global
GetConfiguration ==
  /\ UNCHANGED <<sniffer_vars, config_file>>
  /\ IF CONFIGURATION = NoConfiguration
     THEN /\ loads < MaxLoads
          /\ loads' = loads + 1
          /\ LET made == Configuration(config_file, loads + 1)
             IN /\ CONFIGURATION' = made.object
                /\ config_result' =
                     [op |-> "get_configuration", raised |-> made.raised,
                      value |-> PyNone, object |-> made.object]
     ELSE /\ UNCHANGED <<loads, CONFIGURATION>>
          /\ config_result' =
               [op |-> "get_configuration", raised |-> "",
                value |-> PyNone, object |-> CONFIGURATION]

\* a method of the loaded Configuration is called
Lookup(op, outcome) ==
  /\ CONFIGURATION # NoConfiguration
  /\ config_result' = [op |-> op, raised |-> outcome.raised,
                       value |-> outcome.value, object |-> CONFIGURATION]
  /\ UNCHANGED <<sniffer_vars, config_file, CONFIGURATION, loads>>

SlaveIdFormat == Lookup("get_slave_id_format", get_slave_id_format(CONFIGURATION))

RegisterAddressFormat ==
  Lookup("get_register_address_format", get_register_address_format(CONFIGURATION))

\* config.json is written, replaced or removed between two calls
Rewrite ==
  /\ \E f \in ConfigFiles : config_file' = f
  /\ UNCHANGED <<sniffer_vars, CONFIGURATION, loads, config_result>>

NextConfig ==
  \/ GetConfiguration
  \/ SlaveIdFormat
  \/ RegisterAddressFormat
  \/ Rewrite

SpecConfig == InitConfig /\ [][NextConfig]_vars

\* ------------------------------------- one frame of every shape on the bus
MaxCount == 3

\* the sender appends the checksum, the byte calcCRC16 keeps in crc_hi first
WithCrc(body) ==
  LET crc == calcCRC16(body, Len(body))
  IN body \o <<crc \div 256, crc % 256>>

Payload(count) == [i \in 1..count |-> i]

\* unit 0x11, function code, byte count, data, checksum
ReadResponse(fc, count) == WithCrc(<<17, fc, count>> \o Payload(count))

\* unit 0x11, function code, address, quantity, byte count, data, checksum
WriteRequest(fc, count) ==
  WithCrc(<<17, fc, 0, 1, 0, 1, count>> \o Payload(count))

\* unit 0x11, 0x17, read address and quantity, write address and quantity,
\* byte count, data, checksum
ReadWriteRequest(count) ==
  WithCrc(<<17, 23, 0, 1, 0, 1, 0, 2, 0, 1, count>> \o Payload(count))

ReadResponses ==
  {ReadResponse(fc, count) : fc \in {1, 2, 3, 4, 23}, count \in 0..MaxCount}

WriteRequests ==
  {WriteRequest(fc, count) : fc \in {15, 16}, count \in 0..MaxCount}

ReadWriteRequests == {ReadWriteRequest(count) : count \in 0..MaxCount}

VariableFrames == ReadResponses \cup WriteRequests \cup ReadWriteRequests

\* function codes the decoder has no branch for
UnknownCodes == {0, 7, 24, 127}

UnknownFronts ==
  {<<17, fc>> \o rest : fc \in UnknownCodes,
                        rest \in {<<1>>, <<1, 2, 3>>, <<1, 2, 3, 4, 5, 6, 7, 8, 9>>}}

\* known or exception function codes in front of bytes that are no checksum
BrokenFronts ==
  {<<17, fc>> \o rest : fc \in {1, 3, 5, 6, 15, 16, 23, 131, 255},
                        rest \in {<<2, 0, 0>>, <<2, 0, 0, 0, 0, 0, 0>>,
                                  <<0, 0, 0, 0, 0, 0, 0, 0, 0, 0, 0, 0, 0, 0>>}}

\* an FC15/FC16 Response whose first checksum byte is 0, then a byte 0: the 9
\* bytes are also a checksum-valid Request with count 0
TwoFaced(fc, address) ==
  WithCrc(<<17, fc, address \div 256, address % 256, 0, 2>>) \o <<0>>

TwoFacedFronts ==
  {TwoFaced(15, 6153), TwoFaced(16, 2052),
   TwoFaced(15, 6153) \o <<0>>, TwoFaced(16, 2052) \o <<0, 0>>}

Fronts ==
  VariableFrames \cup UnknownFronts \cup BrokenFronts \cup Segments
    \cup TwoFacedFronts

InitShapes ==
  /\ stream \in Fronts
  /\ pos = 0
  /\ data = <<>>
  /\ trash_data = FALSE
  /\ trash_data_f = <<>>
  /\ log = <<>>
  /\ lastEmpty = FALSE
  /\ crc_data = <<>>
  /\ crc_size = -1
  /\ crc_result = 0
  /\ baud_rate = DefaultBaud
  /\ timeout = calculate_timeout(DefaultBaud)
  /\ ConfigAtRest

SpecShapes == InitShapes /\ [][Next]_vars

\* ------------------------------------------------ the longest frame on the bus
\* 13 + 255, the FC23 Request with the largest byte count
LongestFrame == 13 + 255

RECURSIVE Repeat(_, _)
Repeat(s, n) == IF n = 0 THEN <<>> ELSE s \o Repeat(s, n - 1)

\* the longest frame alone and followed by a frame, a Response and an unknown
\* function code in front of MaxFill frames
LongStreams ==
  {ReadWriteRequest(255), ReadWriteRequest(255) \o Example,
   RespFC15 \o Repeat(Example, MaxFill), <<17, 7>> \o Repeat(Example, MaxFill)}

InitLong ==
  /\ stream \in LongStreams
  /\ pos = 0
  /\ data = <<>>
  /\ trash_data = FALSE
  /\ trash_data_f = <<>>
  /\ log = <<>>
  /\ lastEmpty = FALSE
  /\ crc_data = <<>>
  /\ crc_size = -1
  /\ crc_result = 0
  /\ baud_rate = DefaultBaud
  /\ timeout = calculate_timeout(DefaultBaud)
  /\ ConfigAtRest

\* the sizes of the chunks read_raw returns on a long stream: a frame of 8
\* bytes, half of the longest frame, the longest frame short of one byte
LongChunks == {8, LongestFrame \div 2, LongestFrame - 1}

NextLong ==
  \/ \E n \in LongChunks : Ingest(n)
  \/ Silence

SpecLong == InitLong /\ [][NextLong]_vars

\* =========================================================== checked claims
EmptySelf ==
  [modbus_data |-> <<>>, trash_data |-> FALSE, trash_data_f |-> <<>>, log |-> <<>>]

FrameKinds == {"Request", "Response", "Exception"}

HexSet == {HexDigits[i] : i \in 1..16}

HexValue(ch) == (CHOOSE i \in 1..16 : HexDigits[i] = ch) - 1

\* the bytes a noise message shows, read back from its text
RECURSIVE NoiseBytes(_)
NoiseBytes(t) ==
  IF Len(t) = 0 THEN <<>>
  ELSE IF Head(t) \in HexSet
       THEN <<(16 * HexValue(t[1])) + HexValue(t[2])>> \o NoiseBytes(Drop(t, 2))
       ELSE NoiseBytes(Tail(t))

\* bytes of the first n logged records, in emission order
RECURSIVE Attributed(_, _)
Attributed(l, n) ==
  IF n = 0 THEN <<>>
  ELSE Attributed(l, n - 1) \o
       (IF l[n].kind = "Noise" THEN NoiseBytes(l[n].text) ELSE l[n].span)

OpenNoise == IF trash_data THEN NoiseBytes(trash_data_f) ELSE <<>>

\* C1: the bytes of all logged frames and noise runs, in emission order, then
\* the bytes of the open noise run, then the buffer, are exactly the bytes
\* ingested so far
TotalByteAccounting ==
  Attributed(log, Len(log)) \o OpenNoise \o data = Take(stream, pos)

\* C1 witness: a frame was logged, a noise run is open and bytes are pending
AccountingWitness ==
  /\ Len(log) > 0
  /\ trash_data
  /\ Len(data) > 0
  /\ Len(OpenNoise) > 0

\* the delivery of the whole of s in one chunk followed by one empty chunk
OneShot(s) == process_data(process_data(EmptySelf, s), <<>>)

\* C2 as stated: every delivery of the whole stream that ends with an empty
\* chunk logs the same records as its delivery in one chunk and one empty chunk
ChunkBoundaryInvariance ==
  (pos = Len(stream) /\ lastEmpty) => log = OneShot(stream).log

\* C2 amended: handing the next n bytes to process_data in one chunk leaves
\* buffer, noise run and logged records as handing them over in two chunks
\* does, for every place of the cut; only empty chunks start a decode attempt
ChunkSplitInvariance ==
  [][\A n \in 1..MaxChunk :
       Ingest(n) =>
         \A k \in 1..(n - 1) :
           Self' = process_data(
                     process_data(Self, SubSeq(stream, pos + 1, pos + k)),
                     SubSeq(stream, pos + k + 1, pos + n))]_vars

\* C2 witness: a stream longer than one chunk was delivered whole, the last
\* call had an empty chunk, and two records were logged
ChunkSplitWitness ==
  /\ pos = Len(stream)
  /\ Len(stream) > MaxChunk
  /\ lastEmpty
  /\ Len(log) >= 2
  /\ Len(data) = 0

\* a complete checksum-valid frame of the catalog lies at the front of d
CompleteFrameAtFront(d) ==
  /\ Len(d) >= 3
  /\ LET fc == B(d, 1)
     IN \/ fc \in {1, 2, 3, 4, 5, 6} /\ Len(d) >= 8 /\ CrcMatch(d, 6)
        \/ fc \in {15, 16} /\ Len(d) >= 7 /\ Len(d) >= 9 + B(d, 6)
             /\ CrcMatch(d, 7 + B(d, 6))
        \/ fc = 23 /\ Len(d) >= 11 /\ Len(d) >= 13 + B(d, 10)
             /\ CrcMatch(d, 11 + B(d, 10))
        \/ fc \in {1, 2, 3, 4, 23} /\ Len(d) >= 5 + B(d, 2)
             /\ CrcMatch(d, 3 + B(d, 2))
        \/ fc = 5 /\ Len(d) >= 6 /\ CrcMatch(d, 4)
        \/ fc \in {6, 15, 16} /\ Len(d) >= 8 /\ CrcMatch(d, 6)
        \/ fc >= 128 /\ Len(d) >= 5 /\ CrcMatch(d, 3)

\* C3 as stated: when a decode attempt has returned, the buffer does not begin
\* with a complete checksum-valid frame
ExtractsEveryFrame == lastEmpty => ~CompleteFrameAtFront(data)

\* C4: every logged frame covers the stream bytes that follow the bytes
\* attributed before it, and its last two bytes are the checksum of the bytes
\* of the span before them
FrameSoundness ==
  \A i \in 1..Len(log) :
    log[i].kind \in FrameKinds =>
      LET span == log[i].span
          n == Len(span)
          before == Len(Attributed(log, i - 1))
      IN /\ n >= 5
         /\ span = SubSeq(stream, before + 1, before + n)
         /\ Word(span, n - 2) = calcCRC16(span, n - 2)

\* C4 witness: a Response and an Exception were logged after ignored bytes
SoundnessWitness ==
  /\ \E i \in 1..Len(log) : log[i].kind = "Noise"
  /\ \E i \in 1..Len(log) : log[i].kind \in {"Response", "Exception"}

\* ---------------------------------------------------------------------- C5
CatalogCodes == {1, 2, 3, 4, 5, 6, 15, 16, 23}

\* f is exactly one checksum-valid frame of the catalog
IsCatalogFrame(f) ==
  /\ Len(f) >= 5
  /\ Word(f, Len(f) - 2) = calcCRC16(f, Len(f) - 2)
  /\ LET fc == B(f, 1)
         n == Len(f)
     IN \/ fc \in {1, 2, 3, 4, 5, 6} /\ n = 8
        \/ fc \in {15, 16} /\ n >= 9 /\ n = 9 + B(f, 6)
        \/ fc = 23 /\ n >= 13 /\ n = 13 + B(f, 10)
        \/ fc \in {1, 2, 3, 4, 23} /\ n = 5 + B(f, 2)
        \/ fc = 5 /\ n = 6
        \/ fc \in {6, 15, 16} /\ n = 8
        \/ fc >= 128 /\ n = 5

CatalogFrames == {f \in Segments : IsCatalogFrame(f)}

GarbageRun == NoiseRecord(TrashOpen(255) \o TrashMore(255) \o <<"]">>)

\* FF FF and then f were ingested into an empty reassembler, nothing decoded yet
ResyncPre(f) ==
  /\ stream = Garbage \o f
  /\ pos = Len(stream)
  /\ data = stream
  /\ Len(log) = 0
  /\ ~trash_data
  /\ Len(trash_data_f) = 0

\* one noise run with FF FF, then one frame record over f, nothing pending
ResyncPost(f) ==
  /\ Len(log) = 2
  /\ log[1] = GarbageRun
  /\ log[2].kind \in FrameKinds
  /\ log[2].span = f
  /\ Len(data) = 0
  /\ ~trash_data

\* the unit id of f is no function code, FF FF unit is not followed by its own
\* checksum, and a decode attempt on f alone logs one frame and empties the buffer
Resyncable(f) ==
  /\ B(f, 0) < 128
  /\ B(f, 0) \notin CatalogCodes
  /\ calcCRC16(<<255, 255, B(f, 0)>>, 3) # Word(f, 1)
  /\ LET alone == OneShot(f)
     IN /\ Len(alone.log) = 1
        /\ alone.log[1].kind \in FrameKinds
        /\ Len(alone.modbus_data) = 0
        /\ ~alone.trash_data

\* C5 as stated: for every checksum-valid frame F of the catalog, a decode
\* attempt on FF FF F logs one noise run with FF FF, then the record of F, and
\* leaves nothing buffered
Resynchronization ==
  [][\A f \in Segments :
       (ResyncPre(f) /\ IsCatalogFrame(f) /\ Silence) => ResyncPost(f)']_vars

\* C5 amended: the same for the frames F whose unit id is below 0x80 and no
\* function code of the catalog, where FF FF unit is not followed by its own
\* checksum and F alone is logged as one frame; the record is the one F gets
\* when decoded alone
ResynchronizationForeignUnit ==
  [][\A f \in Segments :
       (ResyncPre(f) /\ IsCatalogFrame(f) /\ Resyncable(f) /\ Silence)
         => (ResyncPost(f)' /\ log'[2] = OneShot(f).log[1])]_vars

\* C5 witness: FF FF and such a frame were delivered and decoded
ResyncWitness ==
  \E f \in CatalogFrames :
    /\ Resyncable(f)
    /\ stream = Garbage \o f
    /\ lastEmpty
    /\ ResyncPost(f)

\* ---------------------------------------------------------------------- C6
FixedResponses == {FrameFC06, RespFC15, RespFC16}

Untouched == Len(log) = 0 /\ ~trash_data /\ Len(trash_data_f) = 0

StartsWith(r) == Len(stream) >= Len(r) /\ Take(stream, Len(r)) = r

FreshWith(r) == StartsWith(r) /\ pos = 0 /\ Len(data) = 0 /\ Untouched

HalfOf(r) == StartsWith(r) /\ pos = 5 /\ data = Take(r, 5) /\ Untouched

WholeOf(r) == StartsWith(r) /\ pos = 8 /\ data = r /\ Untouched

\* C6 as stated: the first 5 bytes of an 8-byte Response in one chunk log
\* nothing and stay buffered; the call with the other 3 bytes logs exactly one
\* record, a Response
PartialFrameAcrossCalls ==
  [][\A r \in FixedResponses :
       /\ (FreshWith(r) /\ Ingest(5)) => (Len(log') = 0 /\ data' = Take(r, 5))
       /\ (HalfOf(r) /\ Ingest(3))
            => (Len(log') = 1 /\ log'[1].kind = "Response")]_vars

\* C6 amended: the call with the other 3 bytes logs nothing either and leaves
\* the 8 bytes buffered; the next call with an empty chunk logs exactly one
\* record over the 8 bytes, a Response for function codes 15 and 16 and a
\* Request for function code 6
PartialFrameUntilSilence ==
  [][\A r \in FixedResponses :
       /\ (FreshWith(r) /\ Ingest(5)) => (Len(log') = 0 /\ data' = Take(r, 5))
       /\ (HalfOf(r) /\ Ingest(3)) => (Len(log') = 0 /\ data' = r)
       /\ (WholeOf(r) /\ Silence)
            => /\ Len(log') = 1
               /\ log'[1].span = r
               /\ log'[1].kind = (IF B(r, 1) = 6 THEN "Request" ELSE "Response")
               /\ Len(data') = 0]_vars

\* C6 witness: an 8-byte FC15/FC16 Response came out after the empty chunk
PartialFrameWitness ==
  \E r \in FixedResponses :
    /\ StartsWith(r)
    /\ pos = 8
    /\ lastEmpty
    /\ Len(log) = 1
    /\ log[1].span = r
    /\ log[1].kind = "Response"

\* ---------------------------------------------------------------------- C7
ExceptionAtFront(d) ==
  Len(d) >= 5 /\ B(d, 1) >= 128 /\ Word(d, 3) = calcCRC16(d, 3)

ExceptionRecord(d, code) ==
  [Blank EXCEPT !.kind = "Exception", !.span = Take(d, 5),
                !.unit_identifier = d[1], !.function_code = code,
                !.exception_code = d[3]]

ExceptionGenerality(masked) ==
  /\ \A i \in 1..Len(log) :
       (log[i].kind = "Exception" /\ log[i].span[2] >= 128) =>
         log[i] = ExceptionRecord(log[i].span,
                    IF masked THEN log[i].span[2] % 128 ELSE log[i].span[2])
  /\ ExceptionAtFront(data) =>
       LET p == Dispatch(Self)
       IN /\ p.error
          /\ ~p.need_more_data
          /\ p.st.modbus_data = Drop(data, 5)
          /\ p.st.log[Len(p.st.log)] =
               ExceptionRecord(data, IF masked THEN data[2] % 128 ELSE data[2])

\* C7 as stated: a checksum-valid 5-byte span whose second byte has the high
\* bit set is logged as an Exception with unit = byte 0, function code =
\* byte 1 AND 0x7F, exception code = byte 2, and 5 bytes leave the buffer
HighBitExceptionMasked == ExceptionGenerality(TRUE)

\* C7 amended: the same, with the function code logged as byte 1 itself
\* (0x83 stays 0x83)
HighBitExceptionRaw == ExceptionGenerality(FALSE)

\* C7 witness: an Exception for 0xC1 was logged, 0x41 being no catalog code
HighBitExceptionWitness ==
  \E i \in 1..Len(log) :
    /\ log[i].kind = "Exception"
    /\ log[i].span[2] = 193
    /\ log[i].function_code = 193

\* ---------------------------------------------------------------------- C8
\* C8 as stated: an Exception is logged only for a function-code byte with the
\* high bit set
ExceptionOnlyHighBit ==
  \A i \in 1..Len(log) : log[i].kind = "Exception" => log[i].span[2] >= 128

\* ---------------------------------------------------------------------- C9
ExampleRequest ==
  [Blank EXCEPT !.kind = "Request", !.span = Example, !.unit_identifier = 1,
                !.function_code = 3, !.read_address = 0, !.read_quantity = 10]

BigEndianFields ==
  \A i \in 1..Len(log) :
    (log[i].kind = "Request" /\ log[i].function_code \in {1, 2, 3, 4}) =>
      /\ log[i].read_address = (256 * log[i].span[3]) + log[i].span[4]
      /\ log[i].read_quantity = (256 * log[i].span[5]) + log[i].span[6]

\* C9: with 01 03 00 00 00 0A C5 CD buffered and no noise run open, a decode
\* attempt logs exactly one record, the Request of unit 1, function 3,
\* address 0, quantity 10, empties the buffer and opens no noise run; address
\* and quantity of read requests are the big-endian values of their bytes
ChecksumExample ==
  [][/\ (data = Example /\ ~trash_data /\ Silence)
          => /\ log' = Append(log, ExampleRequest)
             /\ Len(data') = 0
             /\ ~trash_data'
             /\ trash_data_f' = trash_data_f
     /\ BigEndianFields']_vars

\* C9 witness: the example was delivered and decoded
ChecksumExampleWitness ==
  /\ stream = Example
  /\ lastEmpty
  /\ log = <<ExampleRequest>>
  /\ Len(data) = 0

\* --------------------------------------------------------------------- C10
\* one right shift of the 16-bit register, reflected polynomial 0xA001
ShiftBit(c) == IF c % 2 = 1 THEN Xor(c \div 2, 40961) ELSE c \div 2

\* the register after k shifts
ShiftBits(c, k) ==
  LET reg[i \in 0..k] == IF i = 0 THEN c ELSE ShiftBit(reg[i - 1])
  IN reg[k]

\* eight shifts of every byte value, computed bit by bit
ShiftedByte == [x \in 0..255 |-> ShiftBits(x, 8)]

\* the register after the bytes of s, starting from c: eight shifts of
\* (c XOR byte) equal (c >> 8) XOR eight shifts of the low byte of (c XOR byte)
RECURSIVE BitwiseCRC(_, _)
BitwiseCRC(s, c) ==
  IF Len(s) = 0 THEN c
  ELSE BitwiseCRC(Tail(s),
                  Xor(c \div 256, ShiftedByte[Xor(c % 256, Head(s))]))

\* CRC-16, initial value 0xFFFF, reflected polynomial 0xA001, bit by bit
StandardCRC(s) == BitwiseCRC(s, 65535)

Swap16(v) == ((v % 256) * 256) + (v \div 256)

CrcCalled == crc_size >= 0

CrcArgument == Take(crc_data, crc_size)

\* C10 as stated: calcCRC16 returns the standard CRC-16 of the first size
\* bytes, 0xFFFF for size 0 and 0xCDC5 for 01 03 00 00 00 0A
CrcIsStandard ==
  CrcCalled =>
    /\ crc_result = StandardCRC(CrcArgument)
    /\ crc_size = 0 => crc_result = 65535
    /\ CrcArgument = Take(Example, 6) => crc_result = 52677

\* C10 amended: calcCRC16 returns the standard CRC-16 of the first size bytes
\* with its two bytes exchanged (the byte sent first in the high half),
\* 0xFFFF for size 0 and 0xC5CD for 01 03 00 00 00 0A
CrcIsStandardSwapped ==
  CrcCalled =>
    /\ crc_result = Swap16(StandardCRC(CrcArgument))
    /\ crc_size = 0 => crc_result = 65535
    /\ CrcArgument = Take(Example, 6) => crc_result = 50637

\* C10 witness: calcCRC16 was called on the six example bytes
CrcWitness ==
  /\ crc_size = 6
  /\ crc_data = Take(Example, 6)
  /\ crc_result = 50637

\* --------------------------------------------------------------------- C11
\* C11 as stated: a checksum-valid variable-length frame (Response of FC
\* 1/2/3/4/23, Request of FC 15/16, Request of FC 23) of any byte count is
\* logged by a decode attempt as soon as the buffer holds exactly its bytes
StagedResolution ==
  [][\A f \in VariableFrames :
       (stream = f /\ data = f /\ Untouched /\ Silence)
         => /\ Len(log') = 1
            /\ log'[1].kind \in FrameKinds
            /\ log'[1].span = f
            /\ Len(data') = 0]_vars

\* ------------------------------------------ the passes of one decode attempt
\* the state the final if/elif of a pass leaves for the next pass
AfterPass(p) ==
  IF p.need_more_data THEN p.st
  ELSE IF (~p.request) /\ (~p.response) /\ (~p.error) THEN TrashStep(p.st)
  ELSE p.st

\* the passes of the while loop started on st, each with the state before it,
\* its outcome, and the state after it
RECURSIVE Passes(_)
Passes(st) ==
  LET p == Dispatch(st)
      pass == [before |-> st, outcome |-> p, after |-> AfterPass(p)]
  IN IF p.need_more_data THEN <<pass>> ELSE <<pass>> \o Passes(pass.after)

\* the passes the next call with an empty chunk makes
NextPasses == IF Len(data) > 2 THEN Passes(Self) ELSE <<>>

\* the pass decided for noise
IsNoise(pass) ==
  /\ ~pass.outcome.need_more_data
  /\ ~pass.outcome.request
  /\ ~pass.outcome.response
  /\ ~pass.outcome.error

HasCode(pass) == Len(pass.before.modbus_data) > 2

CodeOf(pass) == B(pass.before.modbus_data, 1)

FrontOf(pass) == B(pass.before.modbus_data, 0)

Tried2(req, resp) == IF req.matched THEN <<req>> ELSE <<req, resp>>

\* the shape attempts a pass makes on d, in the order of the code
ShapesTried(d) ==
  LET fc == B(d, 1)
  IN IF fc \in {1, 2} THEN Tried2(FC01_02_Request(d), FC01_02_Response(d))
     ELSE IF fc \in {3, 4} THEN Tried2(FC03_04_Request(d), FC03_04_Response(d))
     ELSE IF fc = 5 THEN Tried2(FC05_Request(d), FC05_Response(d))
     ELSE IF fc = 6 THEN Tried2(FC06_Request(d), FC06_Response(d))
     ELSE IF fc = 15 THEN Tried2(FC15_Request(d), FC15_Response(d))
     ELSE IF fc = 16
          THEN LET two == Tried2(FC16_Request(d), FC16_Response(d))
               IN IF two[Len(two)].matched THEN two
                  ELSE Append(two, FC16_Error(d))
     ELSE IF fc = 23 THEN Tried2(FC23_Request(d), FC23_Response(d))
     ELSE IF fc >= 128 THEN <<FC80_Error(d)>>
     ELSE <<>>

\* --------------------------------------------------------------------- C12
\* C12: in a pass for a function code of the catalog the front byte joins the
\* noise run only if every shape tried was long enough and failed its
\* checksum; if a shape tried was too short the pass ends the attempt with
\* need_more_data and the noise run gets no byte
NoPrematureDiscard ==
  \A k \in 1..Len(NextPasses) :
    LET pass == NextPasses[k]
        tried == ShapesTried(pass.before.modbus_data)
    IN (HasCode(pass) /\ CodeOf(pass) \in CatalogCodes) =>
         /\ IsNoise(pass) => \A i \in 1..Len(tried) : tried[i] = Miss
         /\ (\E i \in 1..Len(tried) : tried[i] = Short) =>
              /\ pass.outcome.need_more_data
              /\ k = Len(NextPasses)
              /\ pass.after.log = pass.before.log => pass.after = pass.before
              /\ pass.after.trash_data =>
                   /\ pass.before.trash_data
                   /\ pass.after.trash_data_f = pass.before.trash_data_f

\* C12 witness: a decode attempt returned on 6 bytes of function code 5 whose
\* Response checksum fails while the Request shape is still too short: no byte
\* was dropped
PrematureDiscardWitness ==
  /\ lastEmpty
  /\ Len(data) = 6
  /\ B(data, 1) = 5
  /\ FC05_Response(data) = Miss
  /\ FC05_Request(data) = Short
  /\ ~trash_data
  /\ Len(log) = 0

\* --------------------------------------------------------------------- C13
\* C13: a pass that decides for noise takes exactly the front byte out of the
\* buffer, logs nothing, opens a noise run with that byte or adds it to the
\* open one, and the loop goes on with a pass on the rest of the buffer; the
\* decode attempt ends in the state of its last pass
NoiseStepOneByte ==
  /\ \A k \in 1..Len(NextPasses) :
       LET pass == NextPasses[k]
       IN IsNoise(pass) =>
            /\ pass.after.modbus_data = Tail(pass.before.modbus_data)
            /\ pass.after.log = pass.before.log
            /\ pass.after.trash_data
            /\ NoiseBytes(pass.after.trash_data_f) =
                 (IF pass.before.trash_data
                  THEN NoiseBytes(pass.before.trash_data_f) ELSE <<>>)
                   \o <<FrontOf(pass)>>
            /\ k < Len(NextPasses)
            /\ NextPasses[k + 1].before = pass.after
  /\ Len(NextPasses) > 0 =>
       decode_modbus(Self) = NextPasses[Len(NextPasses)].after

\* C13 witness: a decode attempt has put the first two bytes of the stream,
\* one after the other, into a noise run that is still open
NoiseStepWitness ==
  /\ lastEmpty
  /\ trash_data
  /\ Len(log) = 0
  /\ Len(OpenNoise) = 2
  /\ OpenNoise \o data = Take(stream, pos)

\* --------------------------------------------------------------------- C14
IsFramePass(pass) ==
  pass.outcome.request \/ pass.outcome.response \/ pass.outcome.error

\* C14: a pass that logs a frame while a noise run is open logs the run, closed
\* by "]", as one record right before the frame; after such a pass no run is
\* open; in the log every noise record is followed at once by a frame record
NoiseFlushOrdering ==
  /\ \A k \in 1..Len(NextPasses) :
       LET pass == NextPasses[k]
           n == Len(pass.before.log)
       IN IsFramePass(pass) =>
            /\ ~pass.after.trash_data
            /\ pass.before.trash_data =>
                 /\ Len(pass.after.log) = n + 2
                 /\ SubSeq(pass.after.log, 1, n) = pass.before.log
                 /\ pass.after.log[n + 1] =
                      NoiseRecord(pass.before.trash_data_f \o <<"]">>)
                 /\ pass.after.log[n + 2].kind \in FrameKinds
            /\ ~pass.before.trash_data =>
                 /\ Len(pass.after.log) = n + 1
                 /\ SubSeq(pass.after.log, 1, n) = pass.before.log
                 /\ pass.after.log[n + 1].kind \in FrameKinds
  /\ \A i \in 1..Len(log) :
       log[i].kind = "Noise" =>
         /\ i < Len(log)
         /\ log[i + 1].kind \in FrameKinds
  /\ trash_data \in BOOLEAN

\* C14 witness: a decode attempt logged a noise run of two bytes and right
\* after it a frame, and no run is open
NoiseFlushWitness ==
  /\ lastEmpty
  /\ Len(log) = 2
  /\ log[1].kind = "Noise"
  /\ Len(NoiseBytes(log[1].text)) = 2
  /\ log[2].kind \in FrameKinds
  /\ ~trash_data

\* --------------------------------------------------------------------- C15
IsPrefix(a, b) == Len(a) <= Len(b) /\ SubSeq(b, 1, Len(a)) = a

\* C15: a call with bytes leaves an open noise run as it is; a decode attempt
\* that starts with an open run either leaves a run open whose bytes begin
\* with the old ones, or logs first of all one noise record whose bytes are the
\* old ones followed by bytes from the front of the buffer
NoiseRunPersistence ==
  [][/\ \A n \in 1..MaxChunk :
          Ingest(n) => (trash_data' = trash_data /\ trash_data_f' = trash_data_f)
     /\ (trash_data /\ Silence) =>
          LET old == NoiseBytes(trash_data_f)
          IN IF Len(log') > Len(log)
             THEN LET first == log'[Len(log) + 1]
                      run == NoiseBytes(first.text)
                  IN /\ first.kind = "Noise"
                     /\ IsPrefix(old, run)
                     /\ IsPrefix(Drop(run, Len(old)), data)
             ELSE /\ trash_data'
                  /\ log' = log
                  /\ IsPrefix(old, NoiseBytes(trash_data_f'))
                  /\ IsPrefix(Drop(NoiseBytes(trash_data_f'), Len(old)), data)]_vars

\* C15 witness: the run opened by a decode attempt on 00 00 00 is still open,
\* with its one byte, after a later call has brought more bytes
NoiseRunWitness ==
  /\ stream = Zeros \o Example
  /\ ~lastEmpty
  /\ trash_data
  /\ OpenNoise = <<0>>
  /\ Len(data) > 2
  /\ Len(log) = 0

\* --------------------------------------------------------------------- C16
Last(s) == s[Len(s)]

\* C16: a pass on at least 3 bytes whose function code is below 0x80 and none
\* of 1, 2, 3, 4, 5, 6, 15, 16, 23 decides for noise: the front byte leaves the
\* buffer, nothing is logged, the attempt does not stop for more bytes
UnknownCodeIsNoise ==
  \A k \in 1..Len(NextPasses) :
    LET pass == NextPasses[k]
    IN (HasCode(pass) /\ CodeOf(pass) < 128 /\ CodeOf(pass) \notin CatalogCodes) =>
         /\ IsNoise(pass)
         /\ pass.after.modbus_data = Tail(pass.before.modbus_data)
         /\ pass.after.log = pass.before.log
         /\ Last(NoiseBytes(pass.after.trash_data_f)) = FrontOf(pass)

\* C16 witness: a decode attempt on 11 bytes that begin 11 7F dropped the
\* front byte 11
UnknownCodeWitness ==
  /\ stream = <<17, 127, 1, 2, 3, 4, 5, 6, 7, 8, 9>>
  /\ pos = Len(stream)
  /\ lastEmpty
  /\ Len(log) = 0
  /\ Len(OpenNoise) >= 1
  /\ OpenNoise[1] = 17
  /\ OpenNoise \o data = stream

\* --------------------------------------------------------------------- C17
\* C17: a pass whose function code has the high bit set stops for more bytes,
\* changing nothing, on 3 or 4 bytes; on 5 or more bytes whose bytes 3..4 are
\* not the checksum of bytes 0..2 it decides for noise and drops the front
\* byte; it never logs a Request or a Response
ExceptionShapeOutcomes ==
  \A k \in 1..Len(NextPasses) :
    LET pass == NextPasses[k]
        d == pass.before.modbus_data
    IN (HasCode(pass) /\ CodeOf(pass) >= 128) =>
         /\ Len(d) \in {3, 4} =>
              /\ pass.outcome.need_more_data
              /\ pass.after = pass.before
         /\ (Len(d) >= 5 /\ Word(d, 3) # calcCRC16(d, 3)) =>
              /\ IsNoise(pass)
              /\ pass.after.modbus_data = Tail(d)
              /\ pass.after.log = pass.before.log
         /\ ~pass.outcome.request
         /\ ~pass.outcome.response
         /\ \A i \in (Len(pass.before.log) + 1)..Len(pass.after.log) :
              pass.after.log[i].kind \in {"Noise", "Exception"}

\* C17 witness: a decode attempt on 11 83 02 00 00 dropped bytes and then
\* stopped for more bytes with 83 02 00 00 at the front
ExceptionShapeWitness ==
  /\ stream = <<17, 131, 2, 0, 0>>
  /\ lastEmpty
  /\ OpenNoise = <<17>>
  /\ data = <<131, 2, 0, 0>>
  /\ Len(log) = 0

\* --------------------------------------------------------------------- C18
\* C18 as stated: when a call with bytes completes a checksum-valid frame at
\* the front of the buffer, the frame is logged and out of the buffer when the
\* call returns
DecodeOnEveryCall ==
  [][\A n \in 1..MaxChunk :
       (Ingest(n) /\ ~CompleteFrameAtFront(data)
          /\ CompleteFrameAtFront(data \o SubSeq(stream, pos + 1, pos + n)))
         => /\ Len(log') > Len(log)
            /\ log'[Len(log')].kind \in FrameKinds
            /\ Len(data') < Len(data) + n]_vars

\* C18 amended: a call with bytes only appends them to the buffer and logs
\* nothing, also when they complete a frame at the front; a call with an empty
\* chunk is the only one that decodes, and only on more than 2 bytes; the
\* frame its first pass finds at the front is logged by that call
DecodeOnlyOnSilence ==
  [][/\ \A n \in 1..MaxChunk :
          Ingest(n) =>
            /\ data' = data \o SubSeq(stream, pos + 1, pos + n)
            /\ log' = log
            /\ trash_data' = trash_data
            /\ trash_data_f' = trash_data_f
     /\ (Silence /\ Len(data) <= 2) => Self' = Self
     /\ (Silence /\ Len(data) > 2 /\ IsFramePass(NextPasses[1])) =>
          /\ Len(log') > Len(log)
          /\ SubSeq(log', 1, Len(NextPasses[1].after.log)) = NextPasses[1].after.log
          /\ Len(data') <= Len(NextPasses[1].after.modbus_data)]_vars

\* C18 witness: the last bytes of 01 03 00 00 00 0A C5 CD came in a call with
\* bytes, and the frame is complete in the buffer with nothing logged
DecodeOnlyOnSilenceWitness ==
  /\ stream = Example
  /\ ~lastEmpty
  /\ data = Example
  /\ CompleteFrameAtFront(data)
  /\ Len(log) = 0

\* --------------------------------------------------------------------- C19
\* a shape as the code tests it: the length asked for before anything is
\* read, the index of the byte count (NA when the shape has none), and the
\* length of the frame without its counted data
Fixed(n) == [expected_length |-> n, count_at |-> NA, base |-> n]

\* variant: the byte count is read as soon as the pass has a function code
CountedEarly(expected_length, count_at, base) ==
  [expected_length |-> 3, count_at |-> count_at, base |-> base]

Counted(expected_length, count_at, base) ==
  [expected_length |-> expected_length, count_at |-> count_at, base |-> base]

\* the shapes of a function code in the order of the code
ShapesOf(fc) ==
  IF fc \in {1, 2, 3, 4} THEN <<Fixed(8), Counted(7, 2, 5)>>
  ELSE IF fc = 5 THEN <<Fixed(8), Fixed(6)>>
  ELSE IF fc = 6 THEN <<Fixed(8), Fixed(8)>>
  ELSE IF fc = 15 THEN <<Counted(10, 6, 9), Fixed(8)>>
  ELSE IF fc = 16 THEN <<Counted(11, 6, 9), Fixed(8), Fixed(5)>>
  ELSE IF fc = 23 THEN <<Counted(15, 10, 13), Counted(7, 2, 5)>>
  ELSE IF fc >= 128 THEN <<Fixed(5)>>
  ELSE <<>>

\* the shape has a byte count and d is long enough for it to be read
CountRead(d, shape) ==
  shape.count_at # NA /\ Len(d) >= shape.expected_length

\* the length test or tests of the shape fail on d
TooShort(d, shape) ==
  \/ Len(d) < shape.expected_length
  \/ CountRead(d, shape) /\ Len(d) < shape.base + B(d, shape.count_at)

\* the highest index of modbus_data the attempt of the shape reads, fields,
\* data, checksum field and the bytes calcCRC16 goes through; -1 when none
HighestRead(d, shape) ==
  IF Len(d) < shape.expected_length THEN -1
  ELSE IF shape.count_at = NA THEN shape.base - 1
  ELSE IF TooShort(d, shape) THEN shape.count_at
  ELSE shape.base + B(d, shape.count_at) - 1

IsSuffix(a, b) == Len(a) <= Len(b) /\ Drop(b, Len(b) - Len(a)) = a

MaxPending == 12

Cycles ==
  {Zeros \o Example \o Garbage \o Exc83,
   Example \o RespFC03 \o Zeros,
   RespFC15 \o Example,
   Garbage \o Exc83 \o FrameFC06,
   ReqFC16 \o Short16,
   RespFC05 \o Zeros \o RespFC16}

CycleBytes(n) ==
  [i \in 1..n |-> stream[((pos + i - 1) % Len(stream)) + 1]]

InitLive ==
  /\ stream \in Cycles
  /\ pos = 0
  /\ data = <<>>
  /\ trash_data = FALSE
  /\ trash_data_f = <<>>
  /\ log = <<>>
  /\ lastEmpty = FALSE
  /\ crc_data = <<>>
  /\ crc_size = -1
  /\ crc_result = 0
  /\ baud_rate = DefaultBaud
  /\ timeout = calculate_timeout(DefaultBaud)
  /\ ConfigAtRest

\* process_data on the object; log keeps the records of this call only (the
\* decoder never reads what it has logged)
LiveCall(data_to_process) ==
  LET after == process_data([Self EXCEPT !.log = <<>>], data_to_process)
  IN /\ data' = after.modbus_data
     /\ trash_data' = after.trash_data
     /\ trash_data_f' = after.trash_data_f
     /\ log' = after.log
     /\ lastEmpty' = (Len(data_to_process) = 0)

\* read_raw returned the next n bytes of the bus
Feed(n) ==
  /\ Len(data) + n <= MaxPending
  /\ pos' = (pos + n) % Len(stream)
  /\ LiveCall(CycleBytes(n))
  /\ UNCHANGED <<stream, crc_data, crc_size, crc_result, baud_rate, timeout,
                 config_vars>>

\* read_raw timed out
Quiet ==
  /\ LiveCall(<<>>)
  /\ UNCHANGED <<stream, pos, crc_data, crc_size, crc_result, baud_rate,
                 timeout, config_vars>>

Feeding == \E n \in 1..MaxChunk : Feed(n)

NextLive ==
  \/ Feeding
  \/ Quiet

\* bytes keep coming and read timeouts keep coming
SpecLive ==
  InitLive /\ [][NextLive]_vars /\ WF_vars(Feeding) /\ WF_vars(Quiet)

\* a decode attempt takes bytes from the front of the buffer
Consumes == Quiet /\ Len(data') < Len(data)

\* C20: under a bus that never stops, decode attempts take bytes from the
\* front of the buffer, into a logged frame or into the noise run, again and
\* again: every byte in the buffer has finitely many bytes before it and
\* leaves the buffer in its turn
EventualAttribution == []<><<Consumes>>_vars

\* C20 witness: a decode attempt has emptied the buffer into a noise run and
\* a frame
EventualAttributionWitness ==
  /\ stream \in Cycles
  /\ lastEmpty
  /\ Len(data) = 0
  /\ Len(log) = 2
  /\ log[1].kind = "Noise"
  /\ log[2].kind \in FrameKinds

\* --------------------------------------------------------------------- C21
Shortening(pass) ==
  Len(pass.before.modbus_data) - Len(pass.after.modbus_data)

\* C21: a decode attempt ends: every pass of its loop either returns for more
\* data or leaves the buffer strictly shorter, by at least 5 bytes when it
\* logs a frame and by exactly 1 byte when it decides for noise; only the last
\* pass returns, and the passes of one attempt number at most the length of
\* the buffer plus one
DecodeTerminates ==
  /\ Len(NextPasses) <= Len(data) + 1
  /\ \A k \in 1..Len(NextPasses) :
       LET pass == NextPasses[k]
       IN /\ pass.outcome.need_more_data \/ Shortening(pass) > 0
          /\ IsFramePass(pass) => Shortening(pass) >= 5
          /\ IsNoise(pass) => Shortening(pass) = 1
          /\ pass.outcome.need_more_data => k = Len(NextPasses)
          /\ Shortening(pass) >= 0

\* an attempt of three passes is about to run: a noise pass, a frame pass of
\* the shortest frame (5 bytes), and the pass that returns
DecodeTerminatesWitness ==
  /\ Len(NextPasses) >= 3
  /\ \E k \in 1..Len(NextPasses) : IsNoise(NextPasses[k])
  /\ \E k \in 1..Len(NextPasses) :
       IsFramePass(NextPasses[k]) /\ Shortening(NextPasses[k]) = 5
  /\ Last(NextPasses).outcome.need_more_data

\* --------------------------------------------------------------------- C22
\* C22: a call with an empty chunk that follows at once a call with an empty
\* chunk logs nothing and leaves the buffer and the open noise run as they
\* were
SilenceIdempotent ==
  [][(lastEmpty /\ Silence) =>
       UNCHANGED <<data, log, trash_data, trash_data_f>>]_vars

\* --------------------------------------------------------------------- C23
\* C23: a call with an empty chunk made with fewer than 3 bytes buffered logs
\* nothing and leaves the buffer and the noise run unchanged; a call with an
\* empty chunk never adds a byte to the buffer: what it leaves is a suffix of
\* what it found
ShortBufferNoOp ==
  [][Silence =>
       /\ Len(data) < 3 => UNCHANGED <<data, log, trash_data, trash_data_f>>
       /\ IsSuffix(data', data)]_vars

\* an empty chunk has just been handled with exactly the 2 bytes received so
\* far in the buffer
ShortBufferWitness ==
  /\ lastEmpty
  /\ pos = 2
  /\ Len(data) = 2
  /\ data = Take(stream, 2)
  /\ log = <<>>
  /\ ~trash_data

\* --------------------------------------------------------------------- C24
\* C24: the record of an FC23 Request reports, each under its own name, the
\* read address from bytes 2-3, the read quantity from bytes 4-5, the write
\* address from bytes 6-7 and the write quantity from bytes 8-9, all
\* big-endian, and as write data the count bytes that start at offset 11
ReadWriteRequestFields ==
  \A i \in 1..Len(log) :
    LET r == log[i]
    IN (r.kind = "Request" /\ r.function_code = 23) =>
         /\ r.read_address = Word(r.span, 2)
         /\ r.read_quantity = Word(r.span, 4)
         /\ r.write_address = Word(r.span, 6)
         /\ r.write_quantity = Word(r.span, 8)
         /\ r.write_data = SubSeq(r.span, 12, 11 + B(r.span, 10))

\* --------------------------------------------------------------------- C25
\* the length the catalog gives the frame of record r
CatalogLength(r) ==
  LET fc == r.function_code
  IN IF r.kind = "Exception" THEN 5
     ELSE IF r.kind = "Request"
          THEN IF fc \in {1, 2, 3, 4, 5, 6} THEN 8
               ELSE IF fc \in {15, 16} THEN 9 + B(r.span, 6)
               ELSE IF fc = 23 THEN 13 + B(r.span, 10)
               ELSE -1
          ELSE IF fc \in {1, 2, 3, 4, 23} THEN 5 + B(r.span, 2)
               ELSE IF fc = 5 THEN 6
               ELSE IF fc \in {6, 15, 16} THEN 8
               ELSE -1

\* C25: every pass that logs a frame removes from the front of the buffer
\* exactly the bytes of that frame, and their number is the catalog's: Request
\* 8 for FC1-6, 9 + count for FC15/16, 13 + count for FC23; Response 5 + count
\* for FC1-4 and FC23, 6 for FC5, 8 for FC6/15/16; Exception 5
CatalogLengthsConsumed ==
  /\ \A k \in 1..Len(NextPasses) :
       LET pass == NextPasses[k]
           r == Last(pass.after.log)
       IN IsFramePass(pass) =>
            /\ r.kind \in FrameKinds
            /\ Len(r.span) >= 5
            /\ r.span = Take(pass.before.modbus_data, Len(r.span))
            /\ Shortening(pass) = Len(r.span)
            /\ Len(r.span) = CatalogLength(r)
            /\ pass.after.modbus_data =
                 Drop(pass.before.modbus_data, CatalogLength(r))
  /\ \A i \in 1..Len(log) :
       log[i].kind \in FrameKinds => Len(log[i].span) = CatalogLength(log[i])

\* a Request with 3 data bytes has been logged from a buffer that held it and
\* the buffer is empty: 12 bytes for FC15/16, 16 bytes for FC23
CatalogLengthsWitness ==
  /\ lastEmpty
  /\ Len(log) = 1
  /\ log[1].kind = "Request"
  /\ log[1].function_code \in {15, 16, 23}
  /\ Len(log[1].span) \in {12, 16}
  /\ log[1].span = stream
  /\ data = <<>>

\* --------------------------------------------------------------------- C26
\* the fraction t is n / d seconds
IsFraction(t, n, d) == t.den > 0 /\ t.num * d = n * t.den

\* C26: calculate_timeout returns 33 / B seconds for every baud rate B below
\* 19200, which is not 38.5 / B, and 0.00175 seconds for every B from 19200
\* on, 19200 included
TimeoutFormula ==
  timeout # None =>
    /\ baud_rate < 19200 =>
         /\ IsFraction(timeout, 33, baud_rate)
         /\ ~IsFraction(timeout, 385, 10 * baud_rate)
    /\ baud_rate >= 19200 => IsFraction(timeout, 175, 100000)

\* the timeout has been calculated for 19200 baud
TimeoutFormulaWitness ==
  /\ baud_rate = 19200
  /\ timeout # None
  /\ IsFraction(timeout, 175, 100000)

\* --------------------------------------------------------------------- C27
\* f is a checksum-valid Response shorter than the first length the Request
\* shape of its function code asks for: 6 bytes for FC05, 8 bytes for FC15 and
\* FC16, 7 bytes with count 2 for FC01-04
ResponseUnderShortRequest(f) ==
  /\ Len(f) >= 6
  /\ Word(f, Len(f) - 2) = calcCRC16(f, Len(f) - 2)
  /\ \/ B(f, 1) = 5 /\ Len(f) = 6
     \/ B(f, 1) \in {15, 16} /\ Len(f) = 8
     \/ B(f, 1) \in {1, 2, 3, 4} /\ Len(f) = 7 /\ B(f, 2) = 2

ShortRequestResponses == {f \in Fronts : ResponseUnderShortRequest(f)}

\* C27: a call with an empty chunk made on a buffer that holds exactly such a
\* Response logs it as a Response, after the noise run if one is open, and
\* leaves the buffer empty
ResponseDespiteShortRequest ==
  [][\A f \in ShortRequestResponses :
       (data = f /\ Silence) =>
         /\ Len(log') = Len(log) + (IF trash_data THEN 2 ELSE 1)
         /\ Last(log').kind = "Response"
         /\ Last(log').span = f
         /\ Last(log').unit_identifier = B(f, 0)
         /\ Last(log').function_code = B(f, 1)
         /\ data' = <<>>
         /\ ~trash_data']_vars

\* every function code of the claim has such a Response on the bus
ShortRequestCodes == {B(f, 1) : f \in ShortRequestResponses}

\* the 7-byte FC01 response with count 2 came out as a Response and the
\* buffer is empty
ResponseDespiteShortRequestWitness ==
  /\ stream = ReadResponse(1, 2)
  /\ stream \in ShortRequestResponses
  /\ ShortRequestCodes = {1, 2, 3, 4, 5, 15, 16}
  /\ lastEmpty
  /\ pos = 7
  /\ Len(log) = 1
  /\ log[1].kind = "Response"
  /\ log[1].span = stream
  /\ data = <<>>

\* --------------------------------------------------------------------- C28
\* the front of d is checksum-valid under the Request shape of its function
\* code: 8 bytes for FC1-6, 9 + count for FC15/16, 13 + count for FC23
RequestShapeValid(d) ==
  LET fc == B(d, 1)
  IN \/ /\ fc \in {1, 2, 3, 4, 5, 6}
        /\ Len(d) >= 8
        /\ Word(d, 6) = calcCRC16(d, 6)
     \/ /\ fc \in {15, 16}
        /\ Len(d) >= 9
        /\ Len(d) >= 9 + B(d, 6)
        /\ Word(d, 7 + B(d, 6)) = calcCRC16(d, 7 + B(d, 6))
     \/ /\ fc = 23
        /\ Len(d) >= 13
        /\ Len(d) >= 13 + B(d, 10)
        /\ Word(d, 11 + B(d, 10)) = calcCRC16(d, 11 + B(d, 10))

\* C28: a pass that logs a frame from a front that is checksum-valid under
\* the Request shape logs a Request, also when the front is checksum-valid
\* under the Response shape; no Response with function code 6 is ever logged;
\* an 8-byte read response of FC1-4 with count 3 is logged as a Request
RequestPrecedence ==
  /\ \A k \in 1..Len(NextPasses) :
       LET pass == NextPasses[k]
       IN (HasCode(pass) /\ RequestShapeValid(pass.before.modbus_data)
             /\ IsFramePass(pass)) =>
            /\ pass.outcome.request
            /\ Last(pass.after.log).kind = "Request"
  /\ \A i \in 1..Len(log) :
       ~(log[i].kind = "Response" /\ log[i].function_code = 6)
  /\ \A fc \in {1, 2, 3, 4} :
       (data = ReadResponse(fc, 3) /\ Len(log) = 0) =>
         /\ Len(NextPasses) = 2
         /\ NextPasses[1].outcome.request

\* --------------------------------------------------------------------- C29
\* C29: a call with an empty chunk leaves fewer than 268 bytes in the buffer,
\* whatever it found there, and a buffer of 268 bytes or more loses at least
\* one byte in it
BoundedPendingBuffer ==
  [][Silence =>
       /\ Len(data') < LongestFrame
       /\ Len(data) >= LongestFrame => Len(data') < Len(data)]_vars

\* a buffer of more than 268 bytes has been through a decode attempt that
\* logged the longest frame and the frame behind it
LongBufferWitness ==
  /\ stream = ReadWriteRequest(255) \o Example
  /\ lastEmpty
  /\ pos = Len(stream)
  /\ Len(log) = 2
  /\ Len(log[1].span) = LongestFrame
  /\ data = <<>>

\* --------------------------------------------------------------------- C30
\* the big-endian value of the two bytes of span s at offsets i and i + 1
Be16(s, i) == (256 * s[i + 1]) + s[i + 2]

\* the n bytes of span s from offset i on
BytesFrom(s, i, n) == [k \in 1..n |-> s[i + k]]

\* C30: every Request and Response of FC1-6, 15 and 16 reports byte 0 as unit
\* and byte 1 as function code; Requests of FC1-4 report read address bytes
\* 2-3 and read quantity bytes 4-5; Responses of FC1-4 report count byte 2 and
\* exactly count data bytes from offset 3; FC5/6 report write address bytes
\* 2-3 and, where the shape has them, the write-data bytes 4-5; FC15/16 report
\* write address bytes 2-3, write quantity bytes 4-5 and, in Requests, exactly
\* count (byte 6) data bytes from offset 7
FieldExtraction ==
  \A i \in 1..Len(log) :
    LET r == log[i]
        s == r.span
        fc == r.function_code
    IN (r.kind \in {"Request", "Response"} /\ fc \in {1, 2, 3, 4, 5, 6, 15, 16}) =>
         /\ r.unit_identifier = s[1]
         /\ fc = s[2]
         /\ (fc \in {1, 2, 3, 4} /\ r.kind = "Request") =>
              /\ r.read_address = Be16(s, 2)
              /\ r.read_quantity = Be16(s, 4)
         /\ (fc \in {1, 2, 3, 4} /\ r.kind = "Response") =>
              /\ r.read_byte_count = s[3]
              /\ Len(r.read_data) = s[3]
              /\ r.read_data = BytesFrom(s, 3, s[3])
         /\ fc \in {5, 6} =>
              /\ r.write_address = Be16(s, 2)
              /\ Len(s) = 8 => r.write_data = <<s[5], s[6]>>
         /\ fc \in {15, 16} =>
              /\ r.write_address = Be16(s, 2)
              /\ r.write_quantity = Be16(s, 4)
              /\ r.kind = "Request" =>
                   /\ Len(r.write_data) = s[7]
                   /\ r.write_data = BytesFrom(s, 7, s[7])

\* an FC15 Request with 3 data bytes has been logged
FieldExtractionWitness ==
  /\ stream = WriteRequest(15, 3)
  /\ lastEmpty
  /\ Len(log) = 1
  /\ log[1].kind = "Request"
  /\ log[1].function_code = 15
  /\ log[1].write_data = <<1, 2, 3>>
  /\ data = <<>>

\* --------------------------------------------------------------------- C31
Loaded == CONFIGURATION # NoConfiguration

\* C31: once a load has succeeded no step loads the file again or changes the
\* global, and every later get_configuration returns that same object without
\* failing; a get_configuration made while the global is unset tries to load;
\* when the load fails, as it does for a missing file, the global stays unset,
\* and when it succeeds the global is the new object, which is returned
ConfigurationSingleton ==
  [][/\ Loaded => (CONFIGURATION' = CONFIGURATION /\ loads' = loads)
     /\ (Loaded /\ GetConfiguration) =>
          /\ config_result'.raised = ""
          /\ config_result'.object = CONFIGURATION
     /\ ((~Loaded) /\ GetConfiguration) =>
          /\ loads' = loads + 1
          /\ ~config_file.exists => config_result'.raised # ""
          /\ config_result'.raised # "" => CONFIGURATION' = NoConfiguration
          /\ config_result'.raised = "" =>
               /\ CONFIGURATION' # NoConfiguration
               /\ CONFIGURATION'.id = loads'
               /\ config_result'.object = CONFIGURATION']_vars

\* the first load failed, the second made the object, the file is gone again
\* and get_configuration has just returned the object of the second load
ConfigurationSingletonWitness ==
  /\ loads = 2
  /\ CONFIGURATION.id = 2
  /\ CONFIGURATION._data.type = "dict"
  /\ config_file = MissingFile
  /\ config_result.op = "get_configuration"
  /\ config_result.raised = ""
  /\ config_result.object = CONFIGURATION

\* --------------------------------------------------------------------- C32
\* the loaded data has the key with a value that is not null
HasValue(loaded_data, key) ==
  /\ loaded_data.type = "dict"
  /\ \E i \in 1..Len(loaded_data.items) :
       loaded_data.items[i].key = key /\ loaded_data.items[i].value # PyNone

ValueOf(loaded_data, key) ==
  LET i == CHOOSE i \in 1..Len(loaded_data.items) : loaded_data.items[i].key = key
  IN loaded_data.items[i].value

\* C32: get_slave_id_format returns the value of slaveIdFormat when the key is
\* there and not null and otherwise fails with
\* ConfigurationMissingEntryException; get_register_address_format returns the
\* value of registerAddressFormat when it is there and not null and otherwise
\* returns "{}" without failing; no lookup changes the loaded data
LookupErrors ==
  [][/\ SlaveIdFormat =>
          IF HasValue(CONFIGURATION._data, "slaveIdFormat")
          THEN /\ config_result'.raised = ""
               /\ config_result'.value = ValueOf(CONFIGURATION._data, "slaveIdFormat")
          ELSE config_result'.raised = "ConfigurationMissingEntryException"
     /\ RegisterAddressFormat =>
          /\ config_result'.raised = ""
          /\ config_result'.value =
               IF HasValue(CONFIGURATION._data, "registerAddressFormat")
               THEN ValueOf(CONFIGURATION._data, "registerAddressFormat")
               ELSE PyStr("{}")
     /\ (SlaveIdFormat \/ RegisterAddressFormat) =>
          CONFIGURATION' = CONFIGURATION]_vars

\* --------------------------------------------------------------------- C33
\* C33: constructing the Configuration fails with
\* ConfigurationMissingFileException when there is no file, and with
\* ConfigurationInvalidJsonFile when the file is there and its content is not
\* valid JSON
LoadErrors ==
  [][((~Loaded) /\ GetConfiguration) =>
       /\ ~config_file.exists =>
            config_result'.raised = "ConfigurationMissingFileException"
       /\ (config_file.exists /\ config_file.content \in NotJson) =>
            config_result'.raised = "ConfigurationInvalidJsonFile"]_vars

====
